---- MODULE Spec2Model ----
(***************************************************************************)
(* DCAUD client GUI example (src/gui_example/main.py): the main window     *)
(* BotControllerGUI, its image-loading thread pool and the handlers of the *)
(* external BotController's signals.                                       *)
(*                                                                         *)
(* The UI thread runs one handler at a time; a handler that opens a modal  *)
(* dialog or blocks (closeEvent) is split at the blocking call, ui_pc      *)
(* being the place the UI thread is at.  Pool threads run ImageLoader.run  *)
(* concurrently; their `loaded` signal crosses threads and is therefore    *)
(* queued (loaded_events) until the UI event loop delivers it.             *)
(* BotController is an external collaborator: its signals may arrive with  *)
(* any argument whenever the event loop runs, and start() may return       *)
(* either result.                                                          *)
(***************************************************************************)
EXTENDS Integers, Sequences, FiniteSets, Bags

VARIABLES
    fs,                     \* the file system: folder -> set of directory entries
    username_input,         \* text of the username QLineEdit
    username_enabled,       \* username_input.isEnabled()
    folder_input,           \* text of the (read-only) folder QLineEdit
    folder_enabled,         \* folder_input.isEnabled()
    image_folder,           \* self.image_folder
    pixmaps,                \* self.pixmaps, the gallery
    current_status,         \* self.current_status, the run-state
    status_display,         \* text of the top status QLabel
    start_button,           \* start_button.isEnabled()
    stop_button,            \* stop_button.isEnabled()
    speaking_status,        \* text of the speaking-status QLabel
    speaking_style,         \* its style sheet
    image_label,            \* the pixmap shown by image_label
    log_text,               \* lines of the log QTextEdit
    pool_queue,             \* image_pool: runnables not yet started
    pool_active,            \* image_pool: runnables being run, a bag of [path, pc, pixmap]
    loaded_events,          \* queued `loaded` signal deliveries, in posting order
    ui_pc,                  \* where the UI thread is
    exe_path,               \* bot_controller.exe_path
    ctl_last_call,          \* the last call made on bot_controller
    ctl_seq,                \* parity of the number of calls made on bot_controller
    last_status_changed,    \* argument of the last delivered status_changed
    since_start             \* what came after the last start() that returned success

vars == <<fs, username_input, username_enabled, folder_input, folder_enabled,
          image_folder, pixmaps, current_status, status_display, start_button,
          stop_button, speaking_status, speaking_style, image_label, log_text,
          pool_queue, pool_active, loaded_events, ui_pc, exe_path,
          ctl_last_call, ctl_seq, last_status_changed, since_start>>

windowVars == <<username_input, username_enabled, folder_input, folder_enabled,
                image_folder, current_status, status_display, start_button,
                stop_button, speaking_status, speaking_style, image_label, log_text>>

poolVars == <<pool_queue, pool_active, loaded_events>>

ctlVars == <<exe_path, ctl_last_call, ctl_seq>>

-----------------------------------------------------------------------------
(* Bounds of the model *)

\* load tasks that may be outstanding (queued, running or awaiting delivery)
\* when a further folder is selected
MaxOutstanding == 5

\* lines the log view may hold before it has to be cleared
MaxLog == 1

-----------------------------------------------------------------------------
(* Program constants *)

MaxThreadCount == 4

Port == 3001

ScaledSize == 400

NoFolder == ""

LoginText == "Logged in as DCAudioDetection#5665"

StartedText == "Bot started"

JoinText == "You can join the bot on the server using !join now"

SpeakingStyle == "color: green; font-weight: bold;"

NormalStyle == "color: black; font-weight: normal;"

filters == <<"png", "jpg", "jpeg", "bmp">>

NullPixmap == [path |-> <<>>, w |-> 0, h |-> 0]

None == <<"None">>

Folders == {"F1", "F2"}

\* rank of a file name in QDir's default (by name) order
NameOrder == <<"a", "b", "c", "d", "e">>

\* A directory entry is [stem, ext, w, h]; w = 0 is a file no image decodes from.
Entries1 == {[stem |-> "a", ext |-> "png", w |-> 800, h |-> 400],
             [stem |-> "b", ext |-> "JPG", w |-> 0, h |-> 0],
             [stem |-> "d", ext |-> "txt", w |-> 0, h |-> 0]}

Entries2 == {[stem |-> "e", ext |-> "jpeg", w |-> 100, h |-> 200],
             [stem |-> "c", ext |-> "gif", w |-> 300, h |-> 300]}

\* file systems with images: any files of Entries1 in F1, those of Entries2 in F2
ImageFs == {[F1 |-> files, F2 |-> Entries2] : files \in SUBSET Entries1}

\* a file system whose folders hold no image
PlainFs ==
    [F1 |-> {[stem |-> "d", ext |-> "txt", w |-> 0, h |-> 0]},
     F2 |-> {}]

UsernameTexts == {<<>>, <<" ">>, <<" ", "u", " ">>}

Messages == {<<"connecting">>,
             <<"[bot] ", StartedText>>,
             <<LoginText, " ready">>,
             <<StartedText, LoginText>>}

SpeakingData == {[speaking |-> TRUE],
                 [username |-> "u", speaking |-> TRUE],
                 [username |-> "u", speaking |-> FALSE]}

-----------------------------------------------------------------------------
(* Pure helpers *)

\* str.strip(): drop leading and trailing blanks
RECURSIVE LStrip(_)
LStrip(s) == IF s # <<>> /\ Head(s) = " " THEN LStrip(Tail(s)) ELSE s

RECURSIVE RStrip(_)
RStrip(s) ==
    IF s # <<>> /\ s[Len(s)] = " " THEN RStrip(SubSeq(s, 1, Len(s) - 1)) ELSE s

\* the text as typed, blanks included
Strip_none(s) == s

Strip(s) == RStrip(LStrip(s))

\* `fragment in message`
Contains(message, fragment) == \E i \in DOMAIN message : message[i] = fragment

\* dict.get(key, default)
Get(data, key, default) == IF key \in DOMAIN data THEN data[key] ELSE default

\* QDir matches its name filters without regard to case
Lower(ext) ==
    CASE ext = "PNG" -> "png"
      [] ext = "JPG" -> "jpg"
      [] ext = "JPEG" -> "jpeg"
      [] ext = "BMP" -> "bmp"
      [] OTHER -> ext

MatchesFilters(entry) == \E i \in DOMAIN filters : Lower(entry.ext) = filters[i]

Rank(stem) == CHOOSE i \in DOMAIN NameOrder : NameOrder[i] = stem

RECURSIVE SortByName(_)
SortByName(S) ==
    IF S = {} THEN <<>>
    ELSE LET first == CHOOSE e \in S : \A o \in S : Rank(e.stem) <= Rank(o.stem)
         IN  <<first>> \o SortByName(S \ {first})

\* a listing that ignores the name filters
entryList_unfiltered(files, folder) == SortByName(files[folder])

\* QDir(folder).entryList() under the name filters
entryList(files, folder) ==
    SortByName({e \in files[folder] : MatchesFilters(e)})

\* os.path.join(folder, image_file)
PathJoin(folder, entry) == <<folder, entry.stem, entry.ext>>

\* QPixmap(path): the decoded bitmap, null when the file does not decode
QPixmap(files, path) ==
    LET found == {e \in files[path[1]] : e.stem = path[2] /\ e.ext = path[3]}
    IN  IF found = {} THEN NullPixmap
        ELSE LET e == CHOOSE x \in found : TRUE
             IN  IF e.w = 0 THEN NullPixmap ELSE [path |-> path, w |-> e.w, h |-> e.h]

isNull(pixmap) == pixmap.w = 0 /\ pixmap.h = 0

\* pixmap.scaled(400, 400, Qt.KeepAspectRatio, ...)
scaled(pixmap) ==
    LET rw == (ScaledSize * pixmap.w) \div pixmap.h
    IN  IF rw <= ScaledSize
        THEN [pixmap EXCEPT !.w = rw, !.h = ScaledSize]
        ELSE [pixmap EXCEPT !.w = ScaledSize,
                            !.h = (ScaledSize * pixmap.h) \div pixmap.w]

SeqToSet(s) == {s[i] : i \in DOMAIN s}

\* the text on_speaking_update formats
SpeakingText(username, speaking) ==
    <<"Speaking: ", username, " is ", IF speaking THEN "speaking" ELSE "silent">>

NoSpeakingText == <<"Speaking: N/A">>

-----------------------------------------------------------------------------
(* The thread pool *)

ActiveCount(active) == BagCardinality(active)

Outstanding == Len(pool_queue) + ActiveCount(pool_active) + Len(loaded_events)

\* a runnable as a pool thread holds it
Running(path) == [path |-> path, pc |-> "decode", pixmap |-> NullPixmap]

\* a pool that starts a thread for every runnable
PoolStart_unbounded(pool, path) ==
    [pool EXCEPT !.active = @ (+) SetToBag({Running(path)})]

\* QThreadPool.start(runnable): run it at once on a free thread, else queue it
PoolStart(pool, path) ==
    IF ActiveCount(pool.active) < MaxThreadCount
    THEN [pool EXCEPT !.active = @ (+) SetToBag({Running(path)})]
    ELSE [pool EXCEPT !.queue = Append(@, path)]

RECURSIVE PoolStartAll(_, _)
PoolStartAll(pool, paths) ==
    IF paths = <<>> THEN pool
    ELSE PoolStartAll(PoolStart(pool, Head(paths)), Tail(paths))

\* a pool thread whose runnable returned takes the next queued one, if any
PoolFinish(pool, task) ==
    LET rest == pool.active (-) SetToBag({task})
    IN  IF pool.queue = <<>>
        THEN [pool EXCEPT !.active = rest]
        ELSE [queue |-> Tail(pool.queue),
              active |-> rest (+) SetToBag({Running(Head(pool.queue))})]

Pool == [queue |-> pool_queue, active |-> pool_active]

-----------------------------------------------------------------------------
(* The external controller *)

NoCall == [op |-> "none", username |-> None, port |-> 0, success |-> FALSE]

StartCall(username, port, success) ==
    [op |-> "start", username |-> username, port |-> port, success |-> success]

StopCall == [op |-> "stop", username |-> None, port |-> 0, success |-> FALSE]

CleanupCall == [op |-> "cleanup", username |-> None, port |-> 0, success |-> FALSE]

\* a call on bot_controller
Call(c) ==
    /\ ctl_last_call' = c
    /\ ctl_seq' = 1 - ctl_seq

\* the Qt event loop of the UI thread is running (also inside a modal dialog)
EventLoop == ui_pc \in {"idle", "warning", "question"}

-----------------------------------------------------------------------------
(* BotControllerGUI.__init__ and init_ui *)

InitWindow ==
    /\ username_input = <<>>
    /\ username_enabled = TRUE
    /\ folder_input = NoFolder
    /\ folder_enabled = TRUE
    /\ image_folder = NoFolder
    /\ pixmaps = <<>>
    /\ current_status = "Stopped"
    /\ status_display = "Bot Stopped"
    /\ start_button = TRUE
    /\ stop_button = FALSE
    /\ speaking_status = NoSpeakingText
    /\ speaking_style = ""
    /\ image_label = NullPixmap
    /\ log_text = <<>>
    /\ pool_queue = <<>>
    /\ pool_active = EmptyBag
    /\ loaded_events = <<>>
    /\ ui_pc = "idle"
    /\ exe_path = ""
    /\ ctl_last_call = NoCall
    /\ ctl_seq = 0
    /\ last_status_changed = "none"
    /\ since_start = "none"

Init == InitWindow /\ fs \in {PlainFs} \cup ImageFs

InitBot == InitWindow /\ fs = PlainFs

InitImages == InitWindow /\ fs \in ImageFs

-----------------------------------------------------------------------------
(* User input and handlers of the UI thread *)

\* the user types into the username field
edit_username(text) ==
    /\ ui_pc = "idle"
    /\ username_enabled
    /\ username_input' = text
    /\ UNCHANGED <<fs, username_enabled, folder_input, folder_enabled, image_folder,
                   pixmaps, current_status, status_display, start_button, stop_button,
                   speaking_status, speaking_style, image_label, log_text, ui_pc,
                   last_status_changed, since_start>>
    /\ UNCHANGED poolVars
    /\ UNCHANGED ctlVars

\* load_images(): the pool after one loader per listed file was started
load_images(folder) ==
    IF folder = NoFolder THEN Pool
    ELSE LET image_files == entryList(fs, folder)
             paths == [i \in DOMAIN image_files |-> PathJoin(folder, image_files[i])]
         IN  PoolStartAll(Pool, paths)

\* the Browse button: the directory picker returns folder ("" when cancelled)
select_image_folder(folder) ==
    /\ ui_pc = "idle"
    /\ IF folder # NoFolder
       THEN /\ Outstanding + Len(entryList(fs, folder)) <= MaxOutstanding
            /\ image_folder' = folder
            /\ folder_input' = folder
            /\ pixmaps' = <<>>
            /\ LET pool == load_images(folder)
               IN  /\ pool_queue' = pool.queue
                   /\ pool_active' = pool.active
       ELSE UNCHANGED <<image_folder, folder_input, pixmaps, pool_queue, pool_active>>
    /\ UNCHANGED <<fs, username_input, username_enabled, folder_enabled, current_status,
                   status_display, start_button, stop_button, speaking_status,
                   speaking_style, image_label, log_text, loaded_events, ui_pc,
                   last_status_changed, since_start>>
    /\ UNCHANGED ctlVars

\* on_image_loaded(pixmap): delivery of the oldest queued `loaded` signal
on_image_loaded ==
    /\ EventLoop
    /\ loaded_events # <<>>
    /\ LET pixmap == Head(loaded_events)
       IN  pixmaps' = IF ~isNull(pixmap) THEN Append(pixmaps, scaled(pixmap)) ELSE pixmaps
    /\ loaded_events' = Tail(loaded_events)
    /\ UNCHANGED <<fs, username_input, username_enabled, folder_input, folder_enabled,
                   image_folder, current_status, status_display, start_button,
                   stop_button, speaking_status, speaking_style, image_label, log_text,
                   pool_queue, pool_active, ui_pc, last_status_changed, since_start>>
    /\ UNCHANGED ctlVars

\* a folder check that never fires
FolderMissing_never(folder) == FALSE

\* `not self.image_folder`
FolderMissing(folder) == folder = NoFolder

\* a launch that takes the run-state to Starting whatever start() returns
start_bot_launch_optimistic(username, success) ==
    /\ exe_path' = "DCAUD.exe"
    /\ status_display' = "Bot Starting..."
    /\ Call(StartCall(IF username # <<>> THEN username ELSE None, Port, success))
    /\ current_status' = "Starting"
    /\ since_start' = IF success THEN "clean" ELSE since_start
    /\ ui_pc' = "idle"

\* start_bot from line 180 on, with the stripped username
start_bot_launch(username, success) ==
    /\ exe_path' = "DCAUD.exe"
    /\ status_display' = "Bot Starting..."
    /\ Call(StartCall(IF username # <<>> THEN username ELSE None, Port, success))
    /\ current_status' = IF success THEN "Starting" ELSE current_status
    /\ since_start' = IF success THEN "clean" ELSE since_start
    /\ ui_pc' = "idle"

\* the Start button: start_bot up to its first dialog, or to its end
start_bot(success) ==
    /\ ui_pc = "idle"
    /\ start_button
    /\ LET username == Strip(username_input)
       IN  IF FolderMissing(image_folder)
           THEN /\ ui_pc' = "warning"
                /\ UNCHANGED <<current_status, status_display, since_start>>
                /\ UNCHANGED ctlVars
           ELSE IF username = <<>>
           THEN /\ ui_pc' = "question"
                /\ UNCHANGED <<current_status, status_display, since_start>>
                /\ UNCHANGED ctlVars
           ELSE start_bot_launch(username, success)
    /\ UNCHANGED <<fs, username_input, username_enabled, folder_input, folder_enabled,
                   image_folder, pixmaps, start_button, stop_button, speaking_status,
                   speaking_style, image_label, log_text, last_status_changed>>
    /\ UNCHANGED poolVars

\* the user dismisses the "Configuration Error" warning: start_bot returns
start_bot_warned ==
    /\ ui_pc = "warning"
    /\ ui_pc' = "idle"
    /\ UNCHANGED <<fs, last_status_changed, since_start>>
    /\ UNCHANGED windowVars
    /\ UNCHANGED <<pixmaps>>
    /\ UNCHANGED poolVars
    /\ UNCHANGED ctlVars

\* the user answers the "No Username" question: start_bot returns or goes on
start_bot_answered(response, success) ==
    /\ ui_pc = "question"
    /\ IF response = "No"
       THEN /\ ui_pc' = "idle"
            /\ UNCHANGED <<current_status, status_display, since_start>>
            /\ UNCHANGED ctlVars
       ELSE start_bot_launch(<<>>, success)
    /\ UNCHANGED <<fs, username_input, username_enabled, folder_input, folder_enabled,
                   image_folder, pixmaps, start_button, stop_button, speaking_status,
                   speaking_style, image_label, log_text, last_status_changed>>
    /\ UNCHANGED poolVars

\* a Stop handler that leaves the run-state as it is
stop_bot_keeping_state ==
    /\ ui_pc = "idle"
    /\ stop_button
    /\ Call(StopCall)
    /\ status_display' = "Bot Stopped"
    /\ since_start' = "none"
    /\ UNCHANGED <<fs, username_input, username_enabled, folder_input, folder_enabled,
                   image_folder, pixmaps, start_button, stop_button, speaking_status,
                   speaking_style, image_label, log_text, ui_pc, exe_path,
                   last_status_changed, current_status>>
    /\ UNCHANGED poolVars

\* a Stop handler that calls stop() only when the run-state is not Stopped
stop_bot_conditional ==
    /\ ui_pc = "idle"
    /\ stop_button
    /\ IF current_status # "Stopped"
       THEN Call(StopCall)
       ELSE UNCHANGED <<ctl_last_call, ctl_seq>>
    /\ status_display' = "Bot Stopped"
    /\ current_status' = "Stopped"
    /\ since_start' = "none"
    /\ UNCHANGED <<fs, username_input, username_enabled, folder_input, folder_enabled,
                   image_folder, pixmaps, start_button, stop_button, speaking_status,
                   speaking_style, image_label, log_text, ui_pc, exe_path,
                   last_status_changed>>
    /\ UNCHANGED poolVars

\* a Stop handler that re-enables the Start button itself
stop_bot_reenabling ==
    /\ ui_pc = "idle"
    /\ stop_button
    /\ Call(StopCall)
    /\ status_display' = "Bot Stopped"
    /\ current_status' = "Stopped"
    /\ since_start' = "none"
    /\ start_button' = TRUE
    /\ stop_button' = FALSE
    /\ UNCHANGED <<fs, username_input, username_enabled, folder_input, folder_enabled,
                   image_folder, pixmaps, speaking_status, speaking_style, image_label,
                   log_text, ui_pc, exe_path, last_status_changed>>
    /\ UNCHANGED poolVars

\* the Stop button
stop_bot ==
    /\ ui_pc = "idle"
    /\ stop_button
    /\ Call(StopCall)
    /\ status_display' = "Bot Stopped"
    /\ current_status' = "Stopped"
    /\ since_start' = "none"
    /\ UNCHANGED <<fs, username_input, username_enabled, folder_input, folder_enabled,
                   image_folder, pixmaps, start_button, stop_button, speaking_status,
                   speaking_style, image_label, log_text, ui_pc, exe_path,
                   last_status_changed>>
    /\ UNCHANGED poolVars

\* the Clear Log button
clear_log ==
    /\ ui_pc = "idle"
    /\ log_text' = <<>>
    /\ UNCHANGED <<fs, username_input, username_enabled, folder_input, folder_enabled,
                   image_folder, pixmaps, current_status, status_display, start_button,
                   stop_button, speaking_status, speaking_style, image_label, ui_pc,
                   last_status_changed, since_start>>
    /\ UNCHANGED poolVars
    /\ UNCHANGED ctlVars

-----------------------------------------------------------------------------
(* Handlers of the controller's signals (queued onto the UI thread) *)

\* a handler that shows an image on every update, speaking or not
on_speaking_update_any(data, choice) ==
    /\ EventLoop
    /\ LET username == Get(data, "username", "Unknown")
           speaking == Get(data, "speaking", FALSE)
       IN  /\ speaking_status' = SpeakingText(username, speaking)
           /\ speaking_style' = IF speaking THEN SpeakingStyle ELSE NormalStyle
           /\ IF pixmaps # <<>>
              THEN /\ choice \in DOMAIN pixmaps
                   /\ image_label' = pixmaps[choice]
              ELSE /\ choice = 1
                   /\ UNCHANGED image_label
    /\ UNCHANGED <<fs, username_input, username_enabled, folder_input, folder_enabled,
                   image_folder, pixmaps, current_status, status_display, start_button,
                   stop_button, log_text, ui_pc, last_status_changed, since_start>>
    /\ UNCHANGED poolVars
    /\ UNCHANGED ctlVars

on_speaking_update(data, choice) ==
    /\ EventLoop
    /\ LET username == Get(data, "username", "Unknown")
           speaking == Get(data, "speaking", FALSE)
       IN  /\ speaking_status' = SpeakingText(username, speaking)
           /\ IF speaking
              THEN /\ speaking_style' = SpeakingStyle
                   /\ IF pixmaps # <<>>
                      THEN /\ choice \in DOMAIN pixmaps
                           /\ image_label' = pixmaps[choice]
                      ELSE /\ choice = 1
                           /\ UNCHANGED image_label
              ELSE /\ speaking_style' = NormalStyle
                   /\ choice = 1
                   /\ UNCHANGED image_label
    /\ UNCHANGED <<fs, username_input, username_enabled, folder_input, folder_enabled,
                   image_folder, pixmaps, current_status, status_display, start_button,
                   stop_button, log_text, ui_pc, last_status_changed, since_start>>
    /\ UNCHANGED poolVars
    /\ UNCHANGED ctlVars

\* a log line with one of the two texts on_log_message looks for
IsTrigger(message) == Contains(message, LoginText) \/ Contains(message, StartedText)

\* a handler that takes "Bot started" in any run-state
on_log_message_unguarded(message) ==
    /\ EventLoop
    /\ Len(log_text) < MaxLog
    /\ log_text' = Append(log_text, message)
    /\ since_start' = IF since_start = "clean" /\ IsTrigger(message)
                      THEN "logged" ELSE since_start
    /\ IF Contains(message, LoginText)
       THEN /\ status_display' = JoinText
            /\ current_status' = "Running"
       ELSE IF Contains(message, StartedText)
       THEN /\ status_display' = "Bot Running"
            /\ current_status' = "Running"
       ELSE UNCHANGED <<status_display, current_status>>
    /\ UNCHANGED <<fs, username_input, username_enabled, folder_input, folder_enabled,
                   image_folder, pixmaps, start_button, stop_button, speaking_status,
                   speaking_style, image_label, ui_pc, last_status_changed>>
    /\ UNCHANGED poolVars
    /\ UNCHANGED ctlVars

\* a handler that tests for "Bot started" before the login text
on_log_message_swapped(message) ==
    /\ EventLoop
    /\ Len(log_text) < MaxLog
    /\ log_text' = Append(log_text, message)
    /\ since_start' = IF since_start = "clean" /\ IsTrigger(message)
                      THEN "logged" ELSE since_start
    /\ IF Contains(message, StartedText) /\ current_status = "Starting"
       THEN /\ status_display' = "Bot Running"
            /\ current_status' = "Running"
       ELSE IF Contains(message, LoginText)
       THEN /\ status_display' = JoinText
            /\ current_status' = "Running"
       ELSE UNCHANGED <<status_display, current_status>>
    /\ UNCHANGED <<fs, username_input, username_enabled, folder_input, folder_enabled,
                   image_folder, pixmaps, start_button, stop_button, speaking_status,
                   speaking_style, image_label, ui_pc, last_status_changed>>
    /\ UNCHANGED poolVars
    /\ UNCHANGED ctlVars

on_log_message(message) ==
    /\ EventLoop
    /\ Len(log_text) < MaxLog
    /\ log_text' = Append(log_text, message)
    /\ since_start' = IF since_start = "clean" /\ IsTrigger(message)
                      THEN "logged" ELSE since_start
    /\ IF Contains(message, LoginText)
       THEN /\ status_display' = JoinText
            /\ current_status' = "Running"
       ELSE IF Contains(message, StartedText) /\ current_status = "Starting"
       THEN /\ status_display' = "Bot Running"
            /\ current_status' = "Running"
       ELSE UNCHANGED <<status_display, current_status>>
    /\ UNCHANGED <<fs, username_input, username_enabled, folder_input, folder_enabled,
                   image_folder, pixmaps, start_button, stop_button, speaking_status,
                   speaking_style, image_label, ui_pc, last_status_changed>>
    /\ UNCHANGED poolVars
    /\ UNCHANGED ctlVars

\* a handler that leaves the Start button enabled while the bot runs
on_status_changed_start_enabled(running) ==
    /\ EventLoop
    /\ last_status_changed' = IF running THEN "true" ELSE "false"
    /\ since_start' = IF running THEN since_start ELSE "none"
    /\ start_button' = TRUE
    /\ stop_button' = running
    /\ username_enabled' = ~running
    /\ folder_enabled' = ~running
    /\ IF running
       THEN UNCHANGED <<speaking_status, speaking_style, status_display,
                        current_status>>
       ELSE /\ speaking_status' = NoSpeakingText
            /\ speaking_style' = NormalStyle
            /\ status_display' = "Bot Stopped"
            /\ current_status' = "Stopped"
    /\ UNCHANGED <<fs, username_input, folder_input, image_folder, pixmaps,
                   image_label, log_text, ui_pc>>
    /\ UNCHANGED poolVars
    /\ UNCHANGED ctlVars

\* a handler that leaves the speaking line alone when the bot stops
on_status_changed_keeping(running) ==
    /\ EventLoop
    /\ last_status_changed' = IF running THEN "true" ELSE "false"
    /\ since_start' = IF running THEN since_start ELSE "none"
    /\ start_button' = ~running
    /\ stop_button' = running
    /\ username_enabled' = ~running
    /\ folder_enabled' = ~running
    /\ IF running
       THEN UNCHANGED <<status_display, current_status>>
       ELSE /\ status_display' = "Bot Stopped"
            /\ current_status' = "Stopped"
    /\ UNCHANGED <<fs, username_input, folder_input, image_folder, pixmaps,
                   image_label, log_text, ui_pc, speaking_status, speaking_style>>
    /\ UNCHANGED poolVars
    /\ UNCHANGED ctlVars

on_status_changed(running) ==
    /\ EventLoop
    /\ last_status_changed' = IF running THEN "true" ELSE "false"
    /\ since_start' = IF running THEN since_start ELSE "none"
    /\ IF running
       THEN /\ start_button' = FALSE
            /\ stop_button' = TRUE
            /\ username_enabled' = FALSE
            /\ folder_enabled' = FALSE
            /\ UNCHANGED <<speaking_status, speaking_style, status_display,
                           current_status>>
       ELSE /\ start_button' = TRUE
            /\ stop_button' = FALSE
            /\ username_enabled' = TRUE
            /\ folder_enabled' = TRUE
            /\ speaking_status' = NoSpeakingText
            /\ speaking_style' = NormalStyle
            /\ status_display' = "Bot Stopped"
            /\ current_status' = "Stopped"
    /\ UNCHANGED <<fs, username_input, folder_input, image_folder, pixmaps,
                   image_label, log_text, ui_pc>>
    /\ UNCHANGED poolVars
    /\ UNCHANGED ctlVars

-----------------------------------------------------------------------------
(* ImageLoader.run on a pool thread *)

\* a run() whose failed decode takes the queued runnables down with it
run_decode_aborting(task) ==
    /\ task \in BagToSet(pool_active)
    /\ task.pc = "decode"
    /\ LET pixmap == QPixmap(fs, task.path)
       IN  IF ~isNull(pixmap)
           THEN /\ pool_active' = (pool_active (-) SetToBag({task}))
                                  (+) SetToBag({[task EXCEPT !.pc = "emit",
                                                             !.pixmap = pixmap]})
                /\ UNCHANGED pool_queue
           ELSE /\ pool_queue' = <<>>
                /\ pool_active' = pool_active (-) SetToBag({task})
    /\ UNCHANGED <<fs, pixmaps, loaded_events, ui_pc, last_status_changed, since_start>>
    /\ UNCHANGED windowVars
    /\ UNCHANGED ctlVars

\* line 26: decode the file; a null pixmap ends run() with nothing emitted
run_decode(task) ==
    /\ task \in BagToSet(pool_active)
    /\ task.pc = "decode"
    /\ LET pixmap == QPixmap(fs, task.path)
       IN  IF ~isNull(pixmap)
           THEN /\ pool_active' = (pool_active (-) SetToBag({task}))
                                  (+) SetToBag({[task EXCEPT !.pc = "emit",
                                                             !.pixmap = pixmap]})
                /\ UNCHANGED pool_queue
           ELSE LET pool == PoolFinish(Pool, task)
                IN  /\ pool_queue' = pool.queue
                    /\ pool_active' = pool.active
    /\ UNCHANGED <<fs, pixmaps, loaded_events, ui_pc, last_status_changed, since_start>>
    /\ UNCHANGED windowVars
    /\ UNCHANGED ctlVars

\* an emit that runs on_image_loaded at once, on the pool thread
run_emit_direct(task) ==
    /\ task \in BagToSet(pool_active)
    /\ task.pc = "emit"
    /\ pixmaps' = Append(pixmaps, scaled(task.pixmap))
    /\ LET pool == PoolFinish(Pool, task)
       IN  /\ pool_queue' = pool.queue
           /\ pool_active' = pool.active
    /\ UNCHANGED <<fs, loaded_events, ui_pc, last_status_changed, since_start>>
    /\ UNCHANGED windowVars
    /\ UNCHANGED ctlVars

\* line 28: emit `loaded`, which posts the delivery to the UI thread; run() returns
run_emit(task) ==
    /\ task \in BagToSet(pool_active)
    /\ task.pc = "emit"
    /\ loaded_events' = Append(loaded_events, task.pixmap)
    /\ LET pool == PoolFinish(Pool, task)
       IN  /\ pool_queue' = pool.queue
           /\ pool_active' = pool.active
    /\ UNCHANGED <<fs, pixmaps, ui_pc, last_status_changed, since_start>>
    /\ UNCHANGED windowVars
    /\ UNCHANGED ctlVars

-----------------------------------------------------------------------------
(* closeEvent: the UI thread stays in it until waitForDone() returns *)

closeEvent_cleanup ==
    /\ ui_pc = "idle"
    /\ Call(CleanupCall)
    /\ ui_pc' = "close_clear"
    /\ UNCHANGED <<fs, pixmaps, exe_path, last_status_changed, since_start>>
    /\ UNCHANGED windowVars
    /\ UNCHANGED poolVars

closeEvent_clear ==
    /\ ui_pc = "close_clear"
    /\ pool_queue' = <<>>
    /\ ui_pc' = "close_wait"
    /\ UNCHANGED <<fs, pixmaps, pool_active, loaded_events, last_status_changed, since_start>>
    /\ UNCHANGED windowVars
    /\ UNCHANGED ctlVars

\* a closeEvent that accepts without waiting for the pool
closeEvent_accept_nowait ==
    /\ ui_pc = "close_wait"
    /\ ui_pc' = "closed"
    /\ UNCHANGED <<fs, pixmaps, last_status_changed, since_start>>
    /\ UNCHANGED windowVars
    /\ UNCHANGED poolVars
    /\ UNCHANGED ctlVars

\* waitForDone() returns once no pool thread is active; event.accept()
closeEvent_accept ==
    /\ ui_pc = "close_wait"
    /\ ActiveCount(pool_active) = 0
    /\ ui_pc' = "closed"
    /\ UNCHANGED <<fs, pixmaps, last_status_changed, since_start>>
    /\ UNCHANGED windowVars
    /\ UNCHANGED poolVars
    /\ UNCHANGED ctlVars

-----------------------------------------------------------------------------
(* Specifications *)

UserNext ==
    \/ \E text \in UsernameTexts : edit_username(text)
    \/ \E success \in BOOLEAN : start_bot(success)
    \/ start_bot_warned
    \/ \E response \in {"Yes", "No"}, success \in BOOLEAN :
          start_bot_answered(response, success)
    \/ stop_bot
    \/ clear_log

ControllerNext ==
    \/ \E message \in Messages : on_log_message(message)
    \/ \E running \in BOOLEAN : on_status_changed(running)

FolderNext ==
    \/ \E folder \in Folders \cup {NoFolder} : select_image_folder(folder)
    \/ closeEvent_cleanup
    \/ closeEvent_clear
    \/ closeEvent_accept

SpeakingNext ==
    \E data \in SpeakingData, choice \in 1..MaxOutstanding :
       on_speaking_update(data, choice)

LoaderNext ==
    \/ on_image_loaded
    \/ \E task \in BagToSet(pool_active) : run_decode(task)
    \/ \E task \in BagToSet(pool_active) : run_emit(task)

Next == UserNext \/ ControllerNext \/ SpeakingNext \/ FolderNext \/ LoaderNext

\* The whole window.  The bot-control handlers leave the pool, the gallery and
\* image_label alone and the loaders leave the bot-control state alone (see the
\* UNCHANGED clauses), so the properties below are checked on the two parts,
\* SpecBot and SpecImages, whose state spaces TLC can exhaust.
Spec == Init /\ [][Next]_vars

\* bot control: folders without images, so that the pool stays idle
NextBot == UserNext \/ ControllerNext \/ SpeakingNext \/ FolderNext

SpecBot == InitBot /\ [][NextBot]_vars

\* image loading: the handlers that read or write the folder, pool or gallery
NextImages == SpeakingNext \/ FolderNext \/ LoaderNext

SpecImages == InitImages /\ [][NextImages]_vars

\* every path a loader can be given, and every state a pool thread can hold one in
AllPaths ==
    {PathJoin("F1", e) : e \in Entries1} \cup {PathJoin("F2", e) : e \in Entries2}

AllTasks ==
    {Running(path) : path \in AllPaths}
       \cup {[path |-> PathJoin("F1", e), pc |-> "emit",
              pixmap |-> [path |-> PathJoin("F1", e), w |-> e.w, h |-> e.h]] :
                 e \in Entries1}
       \cup {[path |-> PathJoin("F2", e), pc |-> "emit",
              pixmap |-> [path |-> PathJoin("F2", e), w |-> e.w, h |-> e.h]] :
                 e \in Entries2}

\* a pool thread that holds a runnable goes on running it, and the event loop of
\* the UI thread goes on delivering posted signals
\* loading alone: folder selection, the pool threads, delivery and closeEvent
NextLoad == FolderNext \/ LoaderNext

SpecLoadFair ==
    /\ InitImages
    /\ [][NextLoad]_vars
    /\ WF_vars(on_image_loaded)
    /\ \A task \in AllTasks : WF_vars(run_decode(task)) /\ WF_vars(run_emit(task))

-----------------------------------------------------------------------------
(* Claims on bot control, checked under SpecBot *)

\* C1: a start_bot step taken while image_folder is empty opens the
\* "Configuration Error" warning and makes no call on the controller, and
\* neither it nor the dismissal of the warning changes current_status,
\* status_display or exe_path, whatever username_input holds.
C1_StartWithoutFolder ==
    [][/\ \A success \in BOOLEAN :
             (image_folder = NoFolder /\ start_bot(success))
                => /\ ui_pc' = "warning"
                   /\ UNCHANGED <<current_status, status_display, exe_path,
                                  ctl_last_call, ctl_seq>>
       /\ (ui_pc = "warning" /\ ui_pc' # "warning")
             => /\ ui_pc' = "idle"
                /\ UNCHANGED <<current_status, status_display, exe_path,
                               ctl_last_call, ctl_seq>>]_vars

\* the warning is open, a username is typed in and the controller was never called
C1_Witness ==
    /\ ui_pc = "warning"
    /\ Strip(username_input) # <<>>
    /\ image_folder = NoFolder
    /\ ctl_last_call = NoCall
    /\ ctl_seq = 0

\* C2: the enablement of Start, Stop, the username field and the folder field
\* is a function of the last delivered status_changed alone: after true, Start,
\* username and folder are disabled and Stop is enabled; after false or before
\* any delivery, Start, username and folder are enabled and Stop is disabled.
C2_EnablementFollowsStatusChanged ==
    IF last_status_changed = "true"
    THEN ~start_button /\ stop_button /\ ~username_enabled /\ ~folder_enabled
    ELSE start_button /\ ~stop_button /\ username_enabled /\ folder_enabled

\* Stop was pressed after status_changed(true): the run-state is Stopped again,
\* the controls are still those of a running bot
C2_Witness ==
    /\ last_status_changed = "true"
    /\ ctl_last_call = StopCall
    /\ current_status = "Stopped"
    /\ stop_button
    /\ ~start_button

\* C3: every delivery of status_changed(false) leaves speaking_status at
\* "Speaking: N/A" in the normal style, status_display at "Bot Stopped" and
\* current_status at Stopped.
C3_StatusFalseResets ==
    [][on_status_changed(FALSE)
          => /\ speaking_status' = NoSpeakingText
             /\ speaking_style' = NormalStyle
             /\ status_display' = "Bot Stopped"
             /\ current_status' = "Stopped"]_vars

\* status_changed(false) arrived after a successful start: only it can have put
\* "Bot Stopped" back while start is still the last call on the controller
C3_Witness ==
    /\ last_status_changed = "false"
    /\ ctl_last_call.op = "start"
    /\ ctl_last_call.success
    /\ status_display = "Bot Stopped"
    /\ current_status = "Stopped"
    /\ speaking_status = NoSpeakingText
    /\ speaking_style = NormalStyle

\* C4: every delivery of a log message containing the login text sets
\* current_status to Running and status_display to the join instruction, from
\* any run-state and also when the message contains "Bot started" as well.
C4_LoginLineForcesRunning ==
    [][\A message \in Messages :
          ((\E i \in DOMAIN message : message[i] = LoginText)
              /\ on_log_message(message))
             => /\ current_status' = "Running"
                /\ status_display' = JoinText]_vars

\* the login line arrived after Stop was pressed
C4_Witness ==
    /\ ctl_last_call = StopCall
    /\ current_status = "Running"
    /\ status_display = JoinText
    /\ log_text # <<>>
    /\ \E i \in DOMAIN log_text[Len(log_text)] :
          log_text[Len(log_text)][i] = LoginText

-----------------------------------------------------------------------------
(* Claims on image loading, checked under SpecImages *)

\* C5: a speaking_update with speaking = true leaves image_label alone when the
\* gallery is empty and otherwise sets it to a member of the gallery; one with
\* speaking = false leaves image_label alone.
C5_SpeakingShowsGalleryMember ==
    [][\A data \in SpeakingData, choice \in 1..MaxOutstanding :
          on_speaking_update(data, choice)
             => IF Get(data, "speaking", FALSE) /\ pixmaps # <<>>
                THEN image_label' \in SeqToSet(pixmaps)
                ELSE image_label' = image_label]_vars

\* an image of the gallery is shown and the speaking line is in the speaking style
C5_Witness ==
    /\ speaking_style = SpeakingStyle
    /\ ~isNull(image_label)
    /\ image_label \in SeqToSet(pixmaps)

\* the supported extensions of section 4.2, matched as QDir does
SupportedFile(entry) == Lower(entry.ext) \in {"png", "jpg", "jpeg", "bmp"}

\* the paths of the supported files of a folder that decode
DecodablePaths(folder) ==
    {PathJoin(folder, e) : e \in {x \in fs[folder] : SupportedFile(x) /\ x.w # 0}}

GalleryPaths == {pixmaps[i].path : i \in DOMAIN pixmaps}

\* C6: once a folder is chosen and no load task is queued, running or awaiting
\* delivery, the gallery holds the decodable supported files of image_folder,
\* each once, and nothing else.
C6_GalleryRebuiltForFolder ==
    (ui_pc = "idle" /\ image_folder # NoFolder /\ Outstanding = 0)
       => /\ GalleryPaths = DecodablePaths(image_folder)
          /\ Len(pixmaps) = Cardinality(DecodablePaths(image_folder))

\* C7: while closeEvent is past cleanup() the last call on the controller is
\* cleanup; once it is past clear() the pool's queue is empty and no pool thread
\* takes up a runnable; when it has accepted the event no pool thread is active.
C7_CloseDrainsPool ==
    /\ [](ui_pc \in {"close_clear", "close_wait", "closed"}
             => ctl_last_call = CleanupCall)
    /\ [](ui_pc \in {"close_wait", "closed"} => pool_queue = <<>>)
    /\ [](ui_pc = "closed" => ActiveCount(pool_active) = 0)
    /\ [][(ui_pc \in {"close_wait", "closed"})
             => ActiveCount(pool_active') <= ActiveCount(pool_active)]_vars
    /\ [][(ui_pc = "closed") => UNCHANGED vars]_vars

\* the window closed after loaders had run: their signals were never delivered
C7_Witness ==
    /\ ui_pc = "closed"
    /\ image_folder # NoFolder
    /\ loaded_events # <<>>
    /\ pixmaps = <<>>

\* the decodable load tasks that have not reached the gallery yet
Decodes(path) == ~isNull(QPixmap(fs, path))

DecodablePending ==
    Cardinality({i \in DOMAIN pool_queue : Decodes(pool_queue[i])})
       + BagCardinality(
            [task \in {t \in BagToSet(pool_active) : Decodes(t.path)}
                |-> CopiesIn(task, pool_active)])
       + Len(loaded_events)

PendingPath(path) ==
    /\ Decodes(path)
    /\ \/ \E i \in DOMAIN pool_queue : pool_queue[i] = path
       \/ \E task \in BagToSet(pool_active) : task.path = path
       \/ \E i \in DOMAIN loaded_events : loaded_events[i].path = path

\* C8 (under SpecLoadFair): a step that is neither a folder selection nor part of closeEvent keeps
\* the number of decodable tasks still to be delivered plus the length of the
\* gallery (so a failed decode adds nothing and a successful one adds one
\* bitmap), and while the window stays open every pending decodable task's
\* bitmap eventually is in the gallery.
C8_PartialFailureIndependence ==
    /\ [][(ui_pc' = ui_pc /\ ~ \E folder \in Folders : select_image_folder(folder))
             => DecodablePending' + Len(pixmaps') = DecodablePending + Len(pixmaps)]_vars
    /\ \A path \in AllPaths :
          PendingPath(path) ~> (path \in GalleryPaths \/ ui_pc # "idle")

\* the bitmap of a.png is in the gallery of a folder that also holds the corrupt b.JPG
C8_Witness ==
    /\ ui_pc = "idle"
    /\ image_folder = "F1"
    /\ fs["F1"] = Entries1
    /\ Outstanding = 0
    /\ Len(pixmaps) = 1
    /\ pixmaps[1].path = <<"F1", "a", "png">>

\* the load tasks the pool holds for a path, queued or running
TaskCount(path) ==
    Cardinality({i \in DOMAIN pool_queue : pool_queue[i] = path})
       + BagCardinality(
            [task \in {t \in BagToSet(pool_active) : t.path = path}
                |-> CopiesIn(task, pool_active)])

C10_AtMostFourRunning == ActiveCount(pool_active) <= 4

\* four loaders run and a fifth waits in the queue
C10_Witness ==
    /\ ActiveCount(pool_active) = 4
    /\ pool_queue # <<>>

-----------------------------------------------------------------------------
(* Further claims on bot control, checked under SpecBot *)

HasLogin(message) == \E i \in DOMAIN message : message[i] = LoginText

HasStarted(message) == \E i \in DOMAIN message : message[i] = StartedText

StartCalled == ctl_seq' # ctl_seq /\ ctl_last_call'.op = "start"

Blank(text) == \A i \in DOMAIN text : text[i] = " "

\* C12: a step that calls start() passes port 3001, leaves status_display at
\* "Bot Starting..." and opens no dialog; current_status is Starting afterwards
\* when start() returned success and keeps its value when it returned failure.
C12_StartingOnlyOnSuccess ==
    [][StartCalled
          => /\ ctl_last_call'.port = 3001
             /\ status_display' = "Bot Starting..."
             /\ ui_pc' = "idle"
             /\ current_status' = IF ctl_last_call'.success
                                  THEN "Starting" ELSE current_status]_vars

\* start() returned failure in run-state Stopped: the display is left at
\* "Bot Starting..."
C12_Witness ==
    /\ ctl_last_call.op = "start"
    /\ ~ctl_last_call.success
    /\ status_display = "Bot Starting..."
    /\ current_status = "Stopped"
    /\ ui_pc = "idle"

\* C13: every stop_bot step calls stop() on the controller and ends with
\* status_display "Bot Stopped" and current_status Stopped; it leaves the
\* enablement of the controls, the speaking line, the gallery and the log alone.
C13_StopResetsLocally ==
    [][stop_bot
          => /\ ctl_seq' # ctl_seq
             /\ ctl_last_call' = StopCall
             /\ status_display' = "Bot Stopped"
             /\ current_status' = "Stopped"
             /\ UNCHANGED <<start_button, stop_button, username_enabled,
                            folder_enabled, speaking_status, speaking_style,
                            pixmaps, log_text>>]_vars

\* stop() is the first call ever made on the controller, and the log and the
\* speaking line still hold what arrived before
C13_Witness ==
    /\ ctl_last_call = StopCall
    /\ ctl_seq = 1
    /\ current_status = "Stopped"
    /\ status_display = "Bot Stopped"
    /\ stop_button
    /\ log_text # <<>>
    /\ speaking_status # NoSpeakingText

\* C14: with a folder chosen, start_bot on a blank username opens the
\* "No Username" question without calling the controller; the answer No ends
\* it with no call and with current_status and status_display as they were,
\* the answer Yes calls start(None, 3001); on a username that is not blank
\* start_bot opens no dialog and calls start() with the username stripped.
C14_UsernameConfirmation ==
    [][/\ \A success \in BOOLEAN :
             (start_bot(success) /\ image_folder # NoFolder)
                => IF Blank(username_input)
                   THEN /\ ui_pc' = "question"
                        /\ UNCHANGED <<ctl_last_call, ctl_seq, current_status,
                                       status_display>>
                   ELSE /\ ui_pc' = "idle"
                        /\ ctl_seq' # ctl_seq
                        /\ username_input = <<" ", "u", " ">>
                        /\ ctl_last_call' = StartCall(<<"u">>, 3001, success)
       /\ \A success \in BOOLEAN :
             start_bot_answered("No", success)
                => /\ ui_pc' = "idle"
                   /\ UNCHANGED <<ctl_last_call, ctl_seq, current_status,
                                  status_display>>
       /\ \A success \in BOOLEAN :
             start_bot_answered("Yes", success)
                => /\ ctl_seq' # ctl_seq
                   /\ ctl_last_call' = StartCall(None, 3001, success)]_vars

\* Yes was answered on a username of blanks: start() got None
C14_Witness ==
    /\ ctl_last_call.op = "start"
    /\ ctl_last_call.username = None
    /\ username_input = <<" ">>
    /\ ui_pc = "idle"

\* C16: while the last delivered status_changed is true, image_folder and the
\* folder field keep their values.
C16_NoSelectionWhileRunning ==
    [][(last_status_changed = "true" /\ last_status_changed' = "true")
          => UNCHANGED <<image_folder, folder_input>>]_vars

\* C17 as claimed: after a start() that returned success, start() is not called
\* again before stop_bot or a status_changed(false).
C17_NoSecondStart ==
    [][(since_start # "none") => ~StartCalled]_vars

\* C17 as amended: once status_changed(true) was delivered and until
\* status_changed(false) is, the idle window begins no start_bot: it opens no
\* dialog and makes no start() call.
C17_NoStartWhileStatusTrue ==
    [][(last_status_changed = "true" /\ ui_pc = "idle")
          => ~StartCalled /\ ui_pc' \notin {"warning", "question"}]_vars

\* start() returned success and status_changed(true) was delivered since
C17_Witness ==
    /\ last_status_changed = "true"
    /\ since_start = "clean"
    /\ ctl_last_call.op = "start"
    /\ ~start_button
    /\ ui_pc = "idle"

\* C18: status_display is "Bot Stopped" exactly when current_status is Stopped,
\* "Bot Starting..." exactly when it is Starting, and "Bot Running" or the join
\* instruction exactly when it is Running.
C18_DisplayAgreesWithRunState ==
    /\ status_display = "Bot Stopped" <=> current_status = "Stopped"
    /\ status_display = "Bot Starting..." <=> current_status = "Starting"
    /\ status_display \in {"Bot Running", JoinText} <=> current_status = "Running"

\* C19: current_status is Starting only while a start() has returned success
\* with no stop_bot, status_changed(false) or trigger log line since; a
\* "Bot started" line without the login text changes current_status only then,
\* and is without effect after stop_bot or status_changed(false).
C19_StartingOnlyAfterSuccessfulStart ==
    /\ [](current_status = "Starting" => since_start = "clean")
    /\ [][\A message \in Messages :
             (on_log_message(message) /\ HasStarted(message) /\ ~HasLogin(message))
                => /\ current_status' # current_status => since_start = "clean"
                   /\ since_start = "none"
                         => UNCHANGED <<current_status, status_display>>]_vars

\* a "Bot started" line arrived after Stop and changed nothing
C19_Witness ==
    /\ ctl_last_call = StopCall
    /\ since_start = "none"
    /\ current_status = "Stopped"
    /\ status_display = "Bot Stopped"
    /\ log_text # <<>>
    /\ HasStarted(log_text[Len(log_text)])
    /\ ~HasLogin(log_text[Len(log_text)])

-----------------------------------------------------------------------------
(* Further claim on image loading, checked under SpecImages *)

\* C15: no step of a pool thread changes the gallery; a step that changes it is
\* either a folder selection on the idle UI thread, which empties it, or the
\* delivery of the oldest queued `loaded` signal by the event loop, which
\* appends one bitmap and moves no pool thread.
C15_GalleryOwnedByUiThread ==
    [][/\ \A task \in AllTasks :
             (run_decode(task) \/ run_emit(task)) => pixmaps' = pixmaps
       /\ pixmaps' # pixmaps
             => \/ /\ ui_pc = "idle" /\ ui_pc' = "idle"
                   /\ pixmaps' = <<>>
                   /\ image_folder' \in Folders
                   /\ loaded_events' = loaded_events
                \/ /\ EventLoop /\ ui_pc' = ui_pc
                   /\ loaded_events # <<>>
                   /\ loaded_events' = Tail(loaded_events)
                   /\ Len(pixmaps') = Len(pixmaps) + 1
                   /\ SubSeq(pixmaps', 1, Len(pixmaps)) = pixmaps
                   /\ pixmaps'[Len(pixmaps')].path = Head(loaded_events).path
                   /\ UNCHANGED <<pool_queue, pool_active, image_folder>>]_vars

\* the gallery holds a bitmap while loaders run and a signal awaits delivery
C15_Witness ==
    /\ pixmaps # <<>>
    /\ ActiveCount(pool_active) > 0
    /\ loaded_events # <<>>
    /\ ui_pc = "idle"

====
